---- MODULE Spec2Model ----
(***************************************************************************)
(* Circles: membership-gated messages, invitations and push fan-out.       *)
(*                                                                         *)
(* The API handler (lambdas/circles-api-handler.js) is modelled one action *)
(* per route; the accept-invitation handler is split at its awaits because *)
(* its read, its membership put and its invitation update are separate     *)
(* store calls that concurrent invocations interleave.  Tables are sets of *)
(* rows; Put replaces the row with the same primary key, as the store's    *)
(* PutItem does.                                                           *)
(***************************************************************************)
EXTENDS Integers, Sequences, FiniteSets, TLC

\* ------------------------------------------------------------------ bounds
MaxCircles == 1
MaxInvitations == 1
MaxMessages == 2
RoutesMaxMessages == 1
MaxMsTicks == 1
MaxDayTicks == 1
MaxInFlight == 2
MaxQueue == 1
MaxSubscriptions == 1
MaxListMessages == 4
MaxListTicks == 3
\* The clock starts at the UTC midnight that begins day StartDay after the epoch.
StartDay == 1

\* ------------------------------------------------------- program constants
DaySeconds == 24 * 3600
DayMs == DaySeconds * 1000
DefaultExpiresInDays == 7
InvitationMaxUses == 1
DefaultFamilyId == "behrens"

\* --------------------------------------------------------- JavaScript values
Undefined == "<undefined>"
Null == "<null>"
Falsy(v) == v \in {Undefined, Null, ""}
Truthy(v) == ~Falsy(v)
\* a || b
OrElse(a, b) == IF Truthy(a) THEN a ELSE b

\* String.prototype.trim on the request vocabulary: surrounding blanks go.
Trim(s) ==
  CASE s = " " -> ""
    [] s = " c1 " -> "c1"
    [] s = " Question " -> "Question"
    [] OTHER -> s

\* String.prototype.toLowerCase on the request vocabulary.
ToLowerCase(s) ==
  CASE s = "Question" -> "question"
    [] OTHER -> s

\* x && String(x).trim()
TrimmedOrFalsy(x) == IF Falsy(x) THEN x ELSE Trim(x)

\* Date.prototype.toISOString: a fixed-width date part followed by a
\* fixed-width time-of-day part, so that the strings order as the instants do.
toISOString(ms) == <<ms \div DayMs, ms % DayMs>>
IsoLess(a, b) == a[1] < b[1] \/ (a[1] = b[1] /\ a[2] < b[2])
NowSecondsOf(ms) == ms \div 1000

\* ------------------------------------------------------------ request data
UserIds == {"u1", "u2"}
CircleIdPool == <<"c1", "c2", "c3", "c4">>
InvitationIdPool == <<"i1", "i2", "i3", "i4">>
MessageUuidPool == <<"msg_1", "msg_2", "msg_3", "msg_4">>
CircleIds == {CircleIdPool[k] : k \in 1..MaxCircles}
InvitationIds == {InvitationIdPool[k] : k \in 1..MaxInvitations}

MkClaims(sub, username, name, email) ==
  [present |-> TRUE, sub |-> sub, username |-> username, name |-> name, email |-> email]
NoClaims == [present |-> FALSE, sub |-> Undefined, username |-> Undefined,
             name |-> Undefined, email |-> Undefined]
\* Callers: u1 with a name claim, u2 with only an e-mail claim, a token whose
\* claims carry no usable id, and a request without claims.
ClaimsInputs ==
  { MkClaims("u1", Undefined, "Alice", "a@x"),
    MkClaims("u2", Undefined, Undefined, "b@x"),
    MkClaims(Undefined, Undefined, "Eve", Undefined),
    NoClaims }

getUserFromEvent(claims) ==
  IF ~claims.present
  THEN [claims |-> claims, author |-> "unknown", userId |-> Null]
  ELSE LET userId == OrElse(claims.sub, OrElse(claims.username, OrElse(claims.email, Null)))
           author == OrElse(claims.name, OrElse(claims.email,
                       OrElse(claims.username, OrElse(userId, "unknown"))))
       IN [claims |-> claims, author |-> author, userId |-> userId]

\* ------------------------------------------------------------------- state
VARIABLES
  nowMs,          \* the wall clock, in milliseconds
  circles,        \* Circles table: rows keyed by circleId
  memberships,    \* CircleMemberships table: rows keyed by (userId, circleId)
  invitations,    \* CircleInvitations table: rows keyed by invitationId
  messages,       \* CirclesMessages table: rows keyed by (familyId, createdAt)
  pushQueue,      \* bodies sent to the push events queue
  uuids,          \* how many ids randomUUID has handed out, per kind
  accepts,        \* accept-invitation invocations in flight
  resp,           \* the response of the request that completed in this step
  acked,          \* message items returned with 201
  acceptedOk,     \* the accepts that returned 200: invitation, user, circle
  authorSeen,     \* per claims bag: the (body author, stored author) pairs of its creates
  subscriptions,  \* CircleNotificationSubscriptions table: rows keyed by (userId, subscriptionId)
  deadLetters,    \* bodies the queue moved to its dead-letter queue
  vapidConfigured,\* whether the worker's VAPID keys are set
  pushed,         \* the record the worker handled last and the deliveries it attempted
  jar             \* the cookies one browser holds for the /auth path

pushVars == <<subscriptions, deadLetters, vapidConfigured, pushed>>

vars == <<nowMs, circles, memberships, invitations, messages, pushQueue, uuids,
          accepts, resp, acked, acceptedOk, authorSeen, pushVars, jar>>

stores == <<circles, memberships, invitations, messages, pushQueue>>

\* --------------------------------------------------------------- responses
NoItem == [familyId |-> Undefined, createdAt |-> <<0, 0>>, author |-> Undefined,
           text |-> Undefined, messageId |-> Undefined, messageType |-> Undefined,
           questionId |-> Undefined]

NoResponse == [route |-> "none", status |-> 0, message |-> "", userId |-> Null,
               circleId |-> Null, member |-> FALSE, item |-> NoItem,
               invitationId |-> Null, late |-> FALSE, expired |-> FALSE,
   items |-> <<>>, limit |-> 0, generated |-> FALSE,
   prompts |-> <<>>, count |-> [kind |-> "undefined", n |-> 0], email |-> Undefined,
   completion |-> Undefined]

makeResponse(route, status, message, userId, circleId, member) ==
  [route |-> route, status |-> status, message |-> message, userId |-> userId,
   circleId |-> circleId, member |-> member, item |-> NoItem,
   invitationId |-> Null, late |-> FALSE, expired |-> FALSE,
   items |-> <<>>, limit |-> 0, generated |-> FALSE,
   prompts |-> <<>>, count |-> [kind |-> "undefined", n |-> 0], email |-> Undefined,
   completion |-> Undefined]

\* ------------------------------------------------------------------ tables
\* A membership write that never reaches the table.
PutMembershipLost(table, row) == table

\* PutItem: the row with the same primary key is replaced.
PutMembership(table, row) ==
  {r \in table : ~(r.userId = row.userId /\ r.circleId = row.circleId)} \cup {row}
PutMessage(table, row) ==
  {r \in table : ~(r.familyId = row.familyId /\ r.createdAt = row.createdAt)} \cup {row}

\* getUserMembershipCircleIds: the caller's partition of CircleMemberships.
getUserMembershipCircleIds(userId) ==
  IF Falsy(userId) THEN {}
  ELSE {m.circleId : m \in {r \in memberships : r.userId = userId}}

\* ------------------------------------------------------------------- clock
StartMs == StartDay * DayMs

\* A millisecond passes, up to maxTicks of them.
TickMsUpTo(maxTicks) ==
  /\ nowMs % DayMs < maxTicks
  /\ nowMs' = nowMs + 1
  /\ resp' = NoResponse
  /\ UNCHANGED <<circles, memberships, invitations, messages, pushQueue, uuids,
                 accepts, acked, acceptedOk, authorSeen>>
  /\ UNCHANGED <<pushVars, jar>>

TickMs == TickMsUpTo(MaxMsTicks)

\* A day passes.
TickDay ==
  /\ nowMs \div DayMs < (StartMs \div DayMs) + MaxDayTicks
  /\ nowMs' = nowMs + DayMs
  /\ resp' = NoResponse
  /\ UNCHANGED <<circles, memberships, invitations, messages, pushQueue, uuids,
                 accepts, acked, acceptedOk, authorSeen>>
  /\ UNCHANGED <<pushVars, jar>>


\* ----------------------------------------------------------- request inputs
BodyKinds == {"none", "invalid", "json"}
NameInputs == {Undefined, "devteam"}
FamilyIdInputs == {Undefined, " c1 ", "zz"} \cup CircleIds
\* A text as long as the store's item size allows.
BigText == "<text filling an item>"
TextInputs == {Undefined, " ", "hi", BigText}
MessageTypeInputs == {Undefined, "question", " Question ", "reply"}
QuestionIdInputs == {Undefined, "m1"}
MessageIdInputs == {Undefined, "m1"}
BodyAuthorInputs == {Undefined, "mallory"}

\* randomUUID: an id no earlier call returned.
FreshCircleId == CircleIdPool[uuids.circle + 1]
FreshInvitationId == InvitationIdPool[uuids.invitation + 1]
\* An id made once, when the module loads, and used for every message.
StaleMessageId == MessageUuidPool[1]
FreshMessageId == MessageUuidPool[uuids.message + 1]

\* The request in this step completes with r and writes nothing.
Reply(r) ==
  /\ resp' = r
  /\ UNCHANGED <<nowMs, circles, memberships, invitations, messages, pushQueue,
                 uuids, accepts, acked, acceptedOk, authorSeen>>
  /\ UNCHANGED <<pushVars, jar>>

\* ------------------------------------------------------------ create circle
\* POST /api/circles with action "createCircle".  storeFails names the store
\* call that throws, if any; the handler's outer catch turns it into a 500.
handleCreateCircle(claims, name, storeFails) ==
  LET user == getUserFromEvent(claims)
      userId == user.userId
      nowIso == toISOString(nowMs)
      circleId == FreshCircleId
      circleItem == [circleId |-> circleId, name |-> Trim(name), createdAt |-> nowIso,
                     createdByUserId |-> userId]
      membershipItem == [userId |-> userId, circleId |-> circleId, role |-> "owner",
                         joinedAt |-> nowIso, displayName |-> OrElse(user.author, userId)]
  IN
  IF Falsy(userId)
  THEN Reply(makeResponse("createCircle", 401, "Unauthorized: no userId in token",
                          userId, Null, FALSE))
  ELSE IF Falsy(TrimmedOrFalsy(name))
  THEN Reply(makeResponse("createCircle", 400, "Field name is required",
                          userId, Null, FALSE))
  ELSE
    /\ uuids.circle < MaxCircles
    /\ uuids' = [uuids EXCEPT !.circle = @ + 1]
    /\ circles' = IF storeFails = "circlePut" THEN circles ELSE circles \cup {circleItem}
    /\ memberships' = IF storeFails = "none"
                      THEN PutMembership(memberships, membershipItem)
                      ELSE memberships
    /\ resp' = IF storeFails = "none"
               THEN makeResponse("createCircle", 201, "Circle created", userId, circleId, TRUE)
               ELSE makeResponse("createCircle", 500, "Internal server error",
                                 userId, circleId, FALSE)
    /\ UNCHANGED <<nowMs, invitations, messages, pushQueue, accepts, acked,
                   acceptedOk, authorSeen>>
    /\ UNCHANGED <<pushVars, jar>>

CreateCircleOver(requests) ==
  \E q \in requests : handleCreateCircle(q.claims, q.name, q.storeFails)

\* ----------------------------------------------------------- create message
\* A create that lets the body name the author.
MessageAuthorFromBody(jwtAuthor, bodyAuthor) ==
  OrElse(bodyAuthor, OrElse(jwtAuthor, "unknown"))

\* The author stored on a message: from the identity claims, not the body.
MessageAuthor(jwtAuthor, bodyAuthor) == OrElse(jwtAuthor, "unknown")

\* messageType: "answer" unless the body says "question".
NormalizeMessageType(raw) ==
  LET rawType == IF Falsy(raw) THEN raw ELSE ToLowerCase(Trim(raw))
  IN IF rawType = "question" THEN "question" ELSE "answer"

\* The item POST /api/circles builds for a message.
BuildMessageItem(familyId, createdAt, author, text, payload) ==
  LET messageType == NormalizeMessageType(payload.messageType)
      questionId == IF Truthy(payload.questionId) /\ Truthy(Trim(payload.questionId))
                    THEN Trim(payload.questionId) ELSE Null
      messageId == IF Truthy(payload.messageId) /\ Truthy(Trim(payload.messageId))
                   THEN Trim(payload.messageId) ELSE FreshMessageId
  IN [familyId |-> familyId, createdAt |-> createdAt, author |-> author, text |-> text,
      messageId |-> messageId, messageType |-> messageType,
      questionId |-> IF messageType # "question" /\ Truthy(questionId)
                     THEN questionId ELSE Undefined]

\* POST /api/circles without the createCircle action.
handleCreateMessage(claims, bodyKind, payload, storeFails, maxMessages) ==
  LET user == getUserFromEvent(claims)
      userId == user.userId
      userCircleSet == getUserMembershipCircleIds(userId)
      familyId == Trim(OrElse(payload.familyId, DefaultFamilyId))
      text == TrimmedOrFalsy(payload.text)
      member == familyId \in userCircleSet
      author == MessageAuthor(user.author, payload.author)
      createdAt == toISOString(nowMs)
      item == BuildMessageItem(familyId, createdAt, author, text, payload)
      generated == ~(Truthy(payload.messageId) /\ Truthy(Trim(payload.messageId)))
  IN
  IF bodyKind = "none"
  THEN Reply(makeResponse("createMessage", 400, "Request body is required",
                          userId, Null, FALSE))
  ELSE IF Falsy(userId)
  THEN Reply(makeResponse("createMessage", 401, "Unauthorized: no userId in token",
                          userId, Null, FALSE))
  ELSE IF bodyKind = "invalid"
  THEN Reply(makeResponse("createMessage", 400, "Invalid JSON body", userId, Null, FALSE))
  ELSE IF Falsy(text)
  THEN Reply(makeResponse("createMessage", 400, "Field text is required",
                          userId, familyId, member))
  ELSE IF ~member
  THEN Reply(makeResponse("createMessage", 403,
                          "Forbidden: user is not a member of this circle",
                          userId, familyId, member))
  ELSE
    /\ Cardinality(acked) < maxMessages
    /\ generated => uuids.message < maxMessages
    /\ uuids' = IF generated THEN [uuids EXCEPT !.message = @ + 1] ELSE uuids
    /\ IF storeFails
       THEN /\ resp' = makeResponse("createMessage", 500, "Internal server error",
                                    userId, familyId, member)
            /\ UNCHANGED <<messages, acked, authorSeen>>
       ELSE /\ messages' = PutMessage(messages, item)
            /\ resp' = [makeResponse("createMessage", 201, "Message created",
                                     userId, familyId, member)
                          EXCEPT !.item = item, !.generated = generated]
            /\ acked' = acked \cup {item}
            /\ authorSeen' = [authorSeen EXCEPT ![claims] =
                                @ \cup {<<payload.author, item.author>>}]
    /\ UNCHANGED <<nowMs, circles, memberships, invitations, pushQueue, accepts,
                   acceptedOk>>
    /\ UNCHANGED <<pushVars, jar>>

MessagePayloads ==
  [familyId : FamilyIdInputs, text : TextInputs, messageType : MessageTypeInputs,
   questionId : QuestionIdInputs, messageId : MessageIdInputs, author : BodyAuthorInputs]

EmptyPayload ==
  [familyId |-> Undefined, text |-> Undefined, messageType |-> Undefined,
   questionId |-> Undefined, messageId |-> Undefined, author |-> Undefined]

CreateMessageOver(requests, maxMessages) ==
  \E q \in requests :
    handleCreateMessage(q.claims, q.bodyKind, q.payload, q.storeFails, maxMessages)

\* --------------------------------------------------------- create invitation
EmailInputs == {Undefined, "b@x"}
RoleInputs == {Undefined, "admin"}
\* payload.expiresInDays: absent, a number, or a value Number() maps to NaN.
\* The numbers: one day ahead, and the day count that cancels today's date.
ExpiresInDaysNumbers == {-StartDay, 1}
ExpiresInDaysInputs ==
  {[kind |-> "undefined", n |-> 0], [kind |-> "nan", n |-> 0]}
    \cup {[kind |-> "number", n |-> d] : d \in ExpiresInDaysNumbers}

InvitationPayloads == [email : EmailInputs, role : RoleInputs, expiresInDays : ExpiresInDaysInputs]

\* The item POST /api/circles/{circleId}/invitations stores.
BuildInvitationItem(invitationId, circleId, email, payload, userId) ==
  LET role == OrElse(payload.role, "member")
      expiresInDays == IF payload.expiresInDays.kind = "undefined"
                       THEN DefaultExpiresInDays ELSE payload.expiresInDays.n
      nowSeconds == NowSecondsOf(nowMs)
      ttlSeconds == nowSeconds + expiresInDays * 24 * 3600
  IN [invitationId |-> invitationId, circleId |-> circleId, invitedEmail |-> email,
      role |-> role, createdByUserId |-> userId, createdAt |-> toISOString(nowMs),
      expiresAt |-> ttlSeconds, status |-> "PENDING", maxUses |-> InvitationMaxUses,
      usesCount |-> 0, acceptedByUserId |-> Undefined, acceptedAt |-> <<0, 0>>]

\* An e-mail step whose SES error reaches the handler's outer catch.
InvitationEmailUncaught(emailOutcome) ==
  IF emailOutcome = "failed" THEN [threw |-> TRUE, email |-> Undefined]
  ELSE IF emailOutcome = "skipped"
  THEN [threw |-> FALSE, email |-> "skipped: SES_FROM_ADDRESS not configured"]
  ELSE [threw |-> FALSE, email |-> "sent"]

\* The e-mail step of create invitation: sendInvitationEmail inside try/catch.
\* emailOutcome is what the send does: it skips without a sender address,
\* sends, or throws, and the catch turns the error into a skipped result.
InvitationEmail(emailOutcome) ==
  IF emailOutcome = "failed" THEN [threw |-> FALSE, email |-> "skipped: SES error"]
  ELSE IF emailOutcome = "skipped"
  THEN [threw |-> FALSE, email |-> "skipped: SES_FROM_ADDRESS not configured"]
  ELSE [threw |-> FALSE, email |-> "sent"]

handleCreateInvitation(claims, circleId, bodyKind, payload, storeFails, emailOutcome) ==
  LET user == getUserFromEvent(claims)
      userId == user.userId
      userCircleSet == getUserMembershipCircleIds(userId)
      member == circleId \in userCircleSet
      email == TrimmedOrFalsy(payload.email)
      invitationId == FreshInvitationId
      item == BuildInvitationItem(invitationId, circleId, email, payload, userId)
      \* the document client refuses to marshal NaN
      putThrows == storeFails \/ payload.expiresInDays.kind = "nan"
      mail == InvitationEmail(emailOutcome)
      R(status, message) == makeResponse("createInvitation", status, message,
                                         userId, circleId, member)
  IN
  IF Falsy(userId) THEN Reply(R(401, "Unauthorized: no userId in token"))
  ELSE IF ~member
  THEN Reply(R(403, "Forbidden: user is not a member of this circle (cannot create invites)"))
  ELSE IF bodyKind = "none" THEN Reply(R(400, "Request body is required"))
  ELSE IF bodyKind = "invalid" THEN Reply(R(400, "Invalid JSON body"))
  ELSE IF Falsy(email) THEN Reply(R(400, "Field email is required"))
  ELSE
    /\ uuids.invitation < MaxInvitations
    /\ uuids' = [uuids EXCEPT !.invitation = @ + 1]
    /\ invitations' = IF putThrows THEN invitations ELSE invitations \cup {item}
    /\ resp' = IF putThrows \/ mail.threw
               THEN R(500, "Internal server error")
               ELSE [R(201, "Invitation created") EXCEPT !.invitationId = invitationId,
                                                        !.email = mail.email]
    /\ UNCHANGED <<nowMs, circles, memberships, messages, pushQueue, accepts, acked,
                   acceptedOk, authorSeen>>
    /\ UNCHANGED <<pushVars, jar>>

EmptyInvitationPayload ==
  [email |-> Undefined, role |-> Undefined, expiresInDays |-> [kind |-> "undefined", n |-> 0]]

CreateInvitationOver(requests) ==
  \E q \in requests :
    handleCreateInvitation(q.claims, q.circleId, q.bodyKind, q.payload, q.storeFails,
                           q.emailOutcome)

\* --------------------------------------------------------- accept invitation
AcceptSlots == 1..MaxInFlight
IdleAccept == [pc |-> "idle", userId |-> Null, displayName |-> Null,
               invitationId |-> Null, circleId |-> Null, role |-> Null,
               nowIso |-> <<0, 0>>, late |-> FALSE, expired |-> FALSE]

InvitationRow(invitationId) == {r \in invitations : r.invitationId = invitationId}

\* The checks without the one on status.
AcceptChecksWithoutStatus(invitation, nowSeconds) ==
  IF invitation.expiresAt # 0 /\ invitation.expiresAt <= nowSeconds
  THEN [status |-> 410, message |-> "Invitation has expired"]
  ELSE IF invitation.usesCount >= invitation.maxUses
  THEN [status |-> 400, message |-> "Invitation has already been used"]
  ELSE IF Falsy(invitation.circleId)
  THEN [status |-> 500, message |-> "Invitation is invalid (missing circleId)"]
  ELSE [status |-> 0, message |-> "proceed"]

\* The checks between the read of the invitation and the first write:
\* the reply that ends the request, or "proceed".
AcceptChecks(invitation, nowSeconds) ==
  IF invitation.expiresAt # 0 /\ invitation.expiresAt <= nowSeconds
  THEN [status |-> 410, message |-> "Invitation has expired"]
  ELSE IF Truthy(invitation.status) /\ invitation.status # "PENDING"
  THEN [status |-> 400, message |-> "Invitation is no longer pending"]
  ELSE IF invitation.usesCount >= invitation.maxUses
  THEN [status |-> 400, message |-> "Invitation has already been used"]
  ELSE IF Falsy(invitation.circleId)
  THEN [status |-> 500, message |-> "Invitation is invalid (missing circleId)"]
  ELSE [status |-> 0, message |-> "proceed"]

\* POST /api/circles/invitations/accept up to its first write.
AcceptRead(slot, claims, bodyKind, rawInvitationId, storeFails) ==
  LET user == getUserFromEvent(claims)
      userId == user.userId
      invitationId == TrimmedOrFalsy(rawInvitationId)
      found == InvitationRow(invitationId)
      invitation == CHOOSE r \in found : TRUE
      wellFormed == Truthy(userId) /\ bodyKind = "json" /\ Truthy(invitationId)
      \* this request arrives after an accept of the same invitation returned 200
      late == wellFormed /\ \E ok \in acceptedOk : ok.invitationId = invitationId
      \* the row this request reads has expiresAt <= now
      expired == wellFormed /\ ~storeFails /\ found # {}
                 /\ invitation.expiresAt <= NowSecondsOf(nowMs)
      checks == AcceptChecks(invitation, NowSecondsOf(nowMs))
      R(status, message) ==
        [makeResponse("acceptInvitation", status, message, userId, Null, FALSE)
           EXCEPT !.invitationId = invitationId, !.late = late, !.expired = expired]
  IN
  /\ accepts[slot].pc = "idle"
  /\ IF Falsy(userId) THEN Reply(R(401, "Unauthorized: no userId in token"))
     ELSE IF bodyKind = "none" THEN Reply(R(400, "Request body is required"))
     ELSE IF bodyKind = "invalid" THEN Reply(R(400, "Invalid JSON body"))
     ELSE IF Falsy(invitationId) THEN Reply(R(400, "Field invitationId is required"))
     ELSE IF storeFails THEN Reply(R(500, "Internal server error"))
     ELSE IF found = {} THEN Reply(R(404, "Invitation not found"))
     ELSE IF checks.status # 0 THEN Reply(R(checks.status, checks.message))
     ELSE
       /\ accepts' = [accepts EXCEPT ![slot] =
            [pc |-> "put", userId |-> userId, displayName |-> OrElse(user.author, userId),
             invitationId |-> invitationId, circleId |-> invitation.circleId,
             role |-> OrElse(invitation.role, "member"), nowIso |-> toISOString(nowMs),
             late |-> late, expired |-> expired]]
       /\ resp' = NoResponse
       /\ UNCHANGED <<nowMs, circles, memberships, invitations, messages, pushQueue,
                      uuids, acked, acceptedOk, authorSeen>>
       /\ UNCHANGED <<pushVars, jar>>

\* The reply of an accept invocation that got past its checks.
AcceptReply(a, status, message) ==
  [makeResponse("acceptInvitation", status, message, a.userId, a.circleId, FALSE)
     EXCEPT !.invitationId = a.invitationId, !.late = a.late, !.expired = a.expired]

\* The membership put: "create (or overwrite) membership record".
AcceptPutMembership(slot, storeFails) ==
  LET a == accepts[slot]
      membershipItem == [userId |-> a.userId, circleId |-> a.circleId, role |-> a.role,
                         joinedAt |-> a.nowIso, displayName |-> a.displayName]
  IN
  /\ a.pc = "put"
  /\ IF storeFails
     THEN /\ accepts' = [accepts EXCEPT ![slot] = IdleAccept]
          /\ resp' = AcceptReply(a, 500, "Internal server error")
          /\ UNCHANGED memberships
     ELSE /\ memberships' = PutMembership(memberships, membershipItem)
          /\ accepts' = [accepts EXCEPT ![slot].pc = "update"]
          /\ resp' = NoResponse
  /\ UNCHANGED <<nowMs, circles, invitations, messages, pushQueue, uuids, acked,
                 acceptedOk, authorSeen>>
  /\ UNCHANGED <<pushVars, jar>>

\* UpdateItem on the invitation key, with no condition: SET status, acceptedByUserId,
\* acceptedAt, usesCount = if_not_exists(usesCount, 0) + 1.  A key with no row
\* gets a new row holding only the attributes the update sets.
UpdateInvitationAccepted(table, invitationId, userId, nowIso) ==
  IF \E r \in table : r.invitationId = invitationId
  THEN {IF r.invitationId = invitationId
        THEN [r EXCEPT !.status = "ACCEPTED", !.acceptedByUserId = userId,
                       !.acceptedAt = nowIso, !.usesCount = @ + 1]
        ELSE r : r \in table}
  ELSE table \cup
       {[invitationId |-> invitationId, circleId |-> Undefined, invitedEmail |-> Undefined,
         role |-> Undefined, createdByUserId |-> Undefined, createdAt |-> <<0, 0>>,
         expiresAt |-> 0, status |-> "ACCEPTED", maxUses |-> 0, usesCount |-> 1,
         acceptedByUserId |-> userId, acceptedAt |-> nowIso]}

AcceptUpdateInvitation(slot, storeFails) ==
  LET a == accepts[slot] IN
  /\ a.pc = "update"
  /\ accepts' = [accepts EXCEPT ![slot] = IdleAccept]
  /\ IF storeFails
     THEN /\ resp' = AcceptReply(a, 500, "Internal server error")
          /\ UNCHANGED <<invitations, acceptedOk>>
     ELSE /\ invitations' = UpdateInvitationAccepted(invitations, a.invitationId,
                                                     a.userId, a.nowIso)
          /\ acceptedOk' = acceptedOk \cup {[invitationId |-> a.invitationId,
                                              userId |-> a.userId,
                                              circleId |-> a.circleId]}
          /\ resp' = AcceptReply(a, 200, "Invitation accepted")
  /\ UNCHANGED <<nowMs, circles, memberships, messages, pushQueue, uuids, acked,
                 authorSeen>>
  /\ UNCHANGED <<pushVars, jar>>

InvitationIdInputs == InvitationIds \cup {Undefined, "nope"}

AcceptInvitationOn(slots, requests, failures) ==
  \E slot \in slots :
    \/ \E q \in requests :
         AcceptRead(slot, q.claims, q.bodyKind, q.invitationId, q.storeFails)
    \/ \E storeFails \in failures : AcceptPutMembership(slot, storeFails)
    \/ \E storeFails \in failures : AcceptUpdateInvitation(slot, storeFails)

\* The table's time-to-live attribute is expiresAt: the store deletes a row some
\* time after its expiresAt has passed (rows without the attribute stay).
TtlSweep ==
  \E r \in invitations :
    /\ r.expiresAt # 0
    /\ r.expiresAt <= NowSecondsOf(nowMs)
    /\ invitations' = invitations \ {r}
    /\ resp' = NoResponse
    /\ UNCHANGED <<nowMs, circles, memberships, messages, pushQueue, uuids, accepts,
                   acked, acceptedOk, authorSeen>>
    /\ UNCHANGED <<pushVars, jar>>


\* -------------------------------------------------------------- read routes
QueryCircleInputs == {Undefined, "zz"} \cup CircleIds

\* limit = qs.limit ? Number(qs.limit) : 20.
DefaultLimit == 20
LimitInputs == {Undefined, "1", "0"}
Number(str) == CASE str = "1" -> 1 [] str = "0" -> 0 [] OTHER -> 0
LimitOf(qsLimit) == IF Truthy(qsLimit) THEN Number(qsLimit) ELSE DefaultLimit

\* Sizes in KB: the store's largest item, the data one Query call reads, the
\* texts of the requests.
ItemMaxKB == 400
QueryPageKB == 1024
TextKB(text) == IF text = BigText THEN ItemMaxKB - 1 ELSE 1

\* The rows of a partition by descending sort key (ScanIndexForward: false).
RECURSIVE NewestFirst(_)
NewestFirst(rows) ==
  IF rows = {} THEN <<>>
  ELSE LET newest == CHOOSE x \in rows :
                       \A y \in rows : ~IsoLess(x.createdAt, y.createdAt)
       IN <<newest>> \o NewestFirst(rows \ {newest})

\* One Query call: it stops after limit rows, or at the row with which the data
\* read passes QueryPageKB; whether that row is still returned is the store's choice.
RECURSIVE QueryPage(_, _, _, _)
QueryPage(rows, limit, readKB, withCrossing) ==
  IF rows = <<>> \/ limit = 0 THEN <<>>
  ELSE LET read == readKB + TextKB(Head(rows).text)
       IN IF read > QueryPageKB
          THEN IF withCrossing THEN <<Head(rows)>> ELSE <<>>
          ELSE <<Head(rows)>> \o QueryPage(Tail(rows), limit - 1, read, withCrossing)

\* GET /api/circles: the messages of a circle.  The store rejects a Limit below 1.
handleListMessages(claims, qsFamilyId, qsLimit, storeFails, withCrossing) ==
  LET user == getUserFromEvent(claims)
      userId == user.userId
      userCircleSet == getUserMembershipCircleIds(userId)
      familyId == OrElse(qsFamilyId, DefaultFamilyId)
      limit == LimitOf(qsLimit)
      member == familyId \in userCircleSet
      Items == QueryPage(NewestFirst({m \in messages : m.familyId = familyId}),
                         limit, 0, withCrossing)
      R(status, message) ==
        [makeResponse("listMessages", status, message, userId, familyId, member)
           EXCEPT !.limit = limit]
  IN
  IF Falsy(userId) THEN Reply(R(401, "Unauthorized: no userId in token"))
  ELSE IF ~member THEN Reply(R(403, "Forbidden: user is not a member of this circle"))
  ELSE IF storeFails \/ limit < 1 THEN Reply(R(500, "Internal server error"))
  ELSE Reply([R(200, "OK") EXCEPT !.items = Items])

ListMessagesOver(requests) ==
  \E q \in requests :
    handleListMessages(q.claims, q.familyId, q.limit, q.storeFails, q.withCrossing)

\* GET /api/circles/members: who is in a circle.
handleGetCircleMembers(claims, qsFamilyId, storeFails) ==
  LET user == getUserFromEvent(claims)
      userId == user.userId
      userCircleSet == getUserMembershipCircleIds(userId)
      circleId == qsFamilyId
      member == circleId \in userCircleSet
      R(status, message) ==
        makeResponse("listMembers", status, message, userId,
                     IF Falsy(circleId) THEN Null ELSE circleId, member)
  IN
  IF Falsy(userId) THEN Reply(R(401, "Unauthorized: no userId in token"))
  ELSE IF Falsy(circleId) THEN Reply(R(400, "Missing required query parameter familyId"))
  ELSE IF ~member THEN Reply(R(403, "Forbidden: user is not a member of this circle"))
  ELSE IF storeFails THEN Reply(R(500, "Internal server error"))
  ELSE Reply(R(200, "OK"))

ListCircleMembersOver(requests) ==
  \E q \in requests : handleGetCircleMembers(q.claims, q.familyId, q.storeFails)

\* GET /api/circles/config: the caller's circles.
handleListMyCircles(claims, storeFails) ==
  LET userId == getUserFromEvent(claims).userId
      R(status, message) == makeResponse("listMyCircles", status, message,
                                         userId, Null, FALSE)
  IN
  IF Falsy(userId) THEN Reply(R(401, "Unauthorized: no userId in token"))
  ELSE IF storeFails THEN Reply(R(500, "Internal server error"))
  ELSE Reply(R(200, "OK"))

ListMyCirclesOver(requests) ==
  \E q \in requests : handleListMyCircles(q.claims, q.storeFails)

\* GET /api/circles/tags: the tag configuration.
handleListTags(claims, storeFails) ==
  LET userId == getUserFromEvent(claims).userId
      R(status, message) == makeResponse("listTags", status, message, userId, Null, FALSE)
  IN
  IF Falsy(userId) THEN Reply(R(401, "Unauthorized: no userId in token"))
  ELSE IF storeFails THEN Reply(R(500, "Failed to load tag configs"))
  ELSE Reply(R(200, "OK"))

ListTagsOver(requests) ==
  \E q \in requests : handleListTags(q.claims, q.storeFails)

\* POST /api/prompts. The count a payload carries: absent, not a number, or a
\* number.
MaxPromptEntries == 2
DefaultPromptCount == 4
MinPromptCount == 1
MaxPromptCount == 8
PromptCountInputs ==
  {[kind |-> "undefined", n |-> 0], [kind |-> "nan", n |-> 0]}
    \cup [kind : {"number"}, n : {-1, 0, 1, MaxPromptCount + 1}]

\* countRaw = Number(payload.count || 4), where an absent count and the number
\* 0 are falsy; count = Math.min(Math.max(countRaw || 4, 1), 8), where NaN and
\* 0 are falsy.
PromptCountOf(count) ==
  LET countRaw == IF count.kind = "undefined" \/ (count.kind = "number" /\ count.n = 0)
                  THEN [kind |-> "number", n |-> DefaultPromptCount]
                  ELSE count
      orDefault == IF countRaw.kind = "nan" \/ countRaw.n = 0
                   THEN DefaultPromptCount ELSE countRaw.n
      atLeast == IF orDefault > MinPromptCount THEN orDefault ELSE MinPromptCount
  IN IF atLeast < MaxPromptCount THEN atLeast ELSE MaxPromptCount

\* What the completion call yields: an error of the call, a response body that
\* is not JSON, a response without text, or a text block that is a JSON array,
\* some other JSON value, or lines that are not JSON.
NotAString == "<not a string>"
PromptEntries == {"p1", "p2", " ", NotAString}
PromptLines == {"- p1", "p2", " "}
SeqsUpTo(S, n) == UNION {[1..k -> S] : k \in 0..n}
StripBullet(line) ==
  CASE line = "- p1" -> "p1"
    [] OTHER -> line
CompletionInputs ==
  [kind : {"invokeError", "unparsable", "emptyText", "nonArray"}, entries : {<<>>}]
    \cup [kind : {"array"}, entries : SeqsUpTo(PromptEntries, MaxPromptEntries)]
    \cup [kind : {"lines"},
          entries : {ls \in SeqsUpTo(PromptLines, MaxPromptEntries) :
                       \E i \in 1..Len(ls) : Trim(StripBullet(ls[i])) # ""}]

\* The prompts read out of a text block, blank entries dropped.
ParsePrompts(completion) ==
  LET entries == completion.entries
      ofArray == [i \in 1..Len(entries) |->
                    IF entries[i] = NotAString THEN "" ELSE Trim(entries[i])]
      ofLines == [i \in 1..Len(entries) |-> Trim(StripBullet(entries[i]))]
      Kept(p) == p # ""
  IN CASE completion.kind = "array" -> SelectSeq(ofArray, Kept)
       [] completion.kind = "lines" -> SelectSeq(ofLines, Kept)
       [] OTHER -> <<>>

\* The newline split on a text block: the lines without their bullets, blank
\* ones dropped. A text block that is JSON is not blank and has no blank-only
\* content, so it yields at least its own text.
NewlineSplit(completion) ==
  CASE completion.kind = "lines" ->
         SelectSeq([i \in 1..Len(completion.entries) |->
                      Trim(StripBullet(completion.entries[i]))],
                   LAMBDA p : p # "")
    [] completion.kind \in {"array", "nonArray"} -> <<"<the JSON text>">>
    [] OTHER -> <<>>

\* Identity and membership checks, then the completion call. An unparsable
\* body is read as an empty payload.
handleGeneratePrompts(claims, bodyKind, bodyCircleId, bodyCount, completion) ==
  LET user == getUserFromEvent(claims)
      userId == user.userId
      userCircleSet == getUserMembershipCircleIds(userId)
      circleId == IF bodyKind = "json" THEN OrElse(bodyCircleId, Null) ELSE Null
      member == circleId \in userCircleSet
      payloadCount == IF bodyKind = "json" THEN bodyCount
                      ELSE [kind |-> "undefined", n |-> 0]
      count == PromptCountOf(payloadCount)
      parsed == ParsePrompts(completion)
      prompts == IF Len(parsed) > count THEN SubSeq(parsed, 1, count) ELSE parsed
      R(status, message) == [makeResponse("generatePrompts", status, message,
                                          userId, circleId, member)
                               EXCEPT !.count = payloadCount, !.completion = completion]
  IN
  IF Falsy(userId) THEN Reply(R(401, "Unauthorized: no userId in token"))
  ELSE IF Truthy(circleId) /\ ~member
  THEN Reply(R(403, "Forbidden: user is not a member of this circle"))
  ELSE IF completion.kind = "invokeError"
  THEN Reply(R(502, "Error invoking Bedrock"))
  ELSE IF completion.kind = "unparsable"
  THEN Reply(R(502, "Failed to parse Bedrock response"))
  ELSE IF completion.kind = "emptyText"
  THEN Reply(R(502, "Empty response from Bedrock"))
  ELSE IF Len(parsed) = 0 THEN Reply(R(502, "No prompts generated"))
  ELSE Reply([R(200, "Prompts generated") EXCEPT !.prompts = prompts])

GeneratePromptsOver(requests) ==
  \E q \in requests :
    handleGeneratePrompts(q.claims, q.bodyKind, q.circleId, q.count, q.completion)


\* ------------------------------------------------------- push fan-out worker
\* The dead-letter policy of the push events queue.
MaxReceiveCount == 5

\* Key schemas of the tables the worker queries.
CircleMembershipsKeySchema == [partitionKey |-> "userId", sortKey |-> "circleId"]
SubscriptionsKeySchema == [partitionKey |-> "userId", sortKey |-> "subscriptionId"]

\* Query with the key condition "keyName = value": the store serves it only when
\* keyName is the table's partition key and rejects it otherwise; a lookup can
\* also fail in transit.
QueryCommand(table, keySchema, keyName, value, fails) ==
  IF fails \/ keyName # keySchema.partitionKey
  THEN [ok |-> FALSE, Items |-> {}]
  ELSE [ok |-> TRUE, Items |-> {r \in table : r[keyName] = value}]

\* The bodies a queue record can carry: text JSON.parse rejects, or an event.
PushEventTypes == {"NEW_QUESTION", "NEW_ANSWER", "OTHER"}
PushCircleIds == {CircleIdPool[1]}
PushBodies ==
  [parses : {TRUE}, type : PushEventTypes, circleId : PushCircleIds, actorUserId : UserIds]
  \cup [parses : {FALSE}, type : {Undefined}, circleId : {Undefined},
        actorUserId : {Undefined}]

NoPushed == <<>>

\* loadSubscriptionsForUser: the user's subscription rows, [] when the query fails.
loadSubscriptionsForUser(userId, fails) ==
  LET result == QueryCommand(subscriptions, SubscriptionsKeySchema, "userId", userId, fails)
  IN IF result.ok THEN result.Items ELSE {}

\* The user ids of the member rows a lookup returned, without the actor.
TargetsAmong(members, actorUserId) ==
  {m.userId : m \in {r \in members : Truthy(r.userId) /\ r.userId # actorUserId}}

\* Version 1 of the worker: the only target is the actor.
TargetActorOnly(circleId, actorUserId, fails) == {actorUserId}

\* getTargetUserIdsForNewQuestion: the circle's members without the actor,
\* [] when circleId is missing or the query fails.
getTargetUserIdsForNewQuestion(circleId, actorUserId, fails) ==
  LET result == QueryCommand(memberships, CircleMembershipsKeySchema, "circleId",
                             circleId, fails)
  IN IF Falsy(circleId) THEN {}
     ELSE IF ~result.ok THEN {}
     ELSE TargetsAmong(result.Items, actorUserId)

\* The pushes one event leads to: one per subscription of each target user.
SendToTargets(event, title, fails) ==
  LET targetUserIds == getTargetUserIdsForNewQuestion(event.circleId, event.actorUserId,
                                                      fails.members)
  IN {[userId |-> sub.userId, subscriptionId |-> sub.subscriptionId, title |-> title] :
        sub \in UNION {loadSubscriptionsForUser(u, fails.subscriptions) :
                         u \in targetUserIds}}

sendNewQuestionNotificationToCircleMembers(event, fails) ==
  SendToTargets(event, "New question", fails)

sendNewAnswerNotificationToCircleMembers(event, fails) ==
  SendToTargets(event, "New answer", fails)

\* A worker whose lookups let their errors through to handleRecord's catch.
handleRecordRaising(record, fails) ==
  [body |-> record.body, threw |-> TRUE, attempts |-> {}, lookups |-> fails]

\* A worker that logs a record it cannot parse and returns.
handleRecordSwallowing(record, fails) ==
  [body |-> record.body, threw |-> FALSE, attempts |-> {}, lookups |-> fails]

\* handleRecord: what one record leads to; threw means the error was re-thrown,
\* lookups records which of the lookups failed in transit.
handleRecord(record, fails) ==
  LET parsed == record.body
      R(threw, attempts) == [body |-> record.body, threw |-> threw, attempts |-> attempts,
                             lookups |-> fails]
  IN IF ~parsed.parses THEN R(TRUE, {})
     ELSE IF parsed.type = "NEW_QUESTION"
     THEN IF ~vapidConfigured THEN R(FALSE, {})
          ELSE R(FALSE, sendNewQuestionNotificationToCircleMembers(parsed, fails))
     ELSE IF parsed.type = "NEW_ANSWER"
     THEN IF ~vapidConfigured THEN R(FALSE, {})
          ELSE R(FALSE, sendNewAnswerNotificationToCircleMembers(parsed, fails))
     ELSE R(FALSE, {})

\* exports.handler of the worker: the records of the batch in order, up to the
\* first one that throws.
RECURSIVE PushSenderRun(_, _)
PushSenderRun(records, fails) ==
  IF records = <<>> THEN <<>>
  ELSE LET r == handleRecord(Head(records), fails)
       IN IF r.threw THEN <<r>> ELSE <<r>> \o PushSenderRun(Tail(records), fails)

\* The records of pushQueue at the positions in batch, in queue order.
RECURSIVE BatchOf(_, _)
BatchOf(queue, batch) ==
  IF queue = <<>> THEN <<>>
  ELSE LET rest == BatchOf(Tail(queue), {i - 1 : i \in batch \ {1}})
       IN IF 1 \in batch THEN <<Head(queue)>> \o rest ELSE rest

\* The queue after an invocation on batch: acknowledged records leave it, the
\* records of a failed invocation stay and count one more receive.
RECURSIVE AfterBatch(_, _, _)
AfterBatch(queue, batch, failed) ==
  IF queue = <<>> THEN <<>>
  ELSE LET rest == AfterBatch(Tail(queue), {i - 1 : i \in batch \ {1}}, failed)
       IN IF 1 \notin batch THEN <<Head(queue)>> \o rest
          ELSE IF failed
          THEN <<[Head(queue) EXCEPT !.receiveCount = @ + 1]>> \o rest
          ELSE rest

PushLookupFailures == [members : BOOLEAN, subscriptions : BOOLEAN]

\* The queue hands a batch of records to the worker.
PushSenderHandler(batch, fails) ==
  LET records == BatchOf(pushQueue, batch)
      results == PushSenderRun(records, fails)
      failed == results[Len(results)].threw
  IN
  /\ batch # {}
  /\ \A i \in batch : pushQueue[i].receiveCount < MaxReceiveCount
  /\ pushed' = results
  /\ pushQueue' = AfterBatch(pushQueue, batch, failed)
  /\ resp' = NoResponse
  /\ UNCHANGED <<nowMs, circles, memberships, invitations, messages, uuids, accepts,
                 acked, acceptedOk, authorSeen, subscriptions, deadLetters,
                 vapidConfigured, jar>>

PushSenderInvoke ==
  \E batch \in SUBSET (1..Len(pushQueue)) : \E fails \in PushLookupFailures :
    PushSenderHandler(batch, fails)

\* A record received MaxReceiveCount times moves to the dead-letter queue.
MoveToDeadLetters ==
  \E i \in 1..Len(pushQueue) :
    /\ pushQueue[i].receiveCount >= MaxReceiveCount
    /\ deadLetters' = deadLetters \cup {pushQueue[i].body}
    /\ pushQueue' = AfterBatch(pushQueue, {i}, FALSE)
    /\ resp' = NoResponse
    /\ UNCHANGED <<nowMs, circles, memberships, invitations, messages, uuids, accepts,
                   acked, acceptedOk, authorSeen, subscriptions, vapidConfigured, pushed,
                   jar>>

\* A producer holding the queue's send grant enqueues a body.
SendMessageCommand(body) ==
  /\ Len(pushQueue) < MaxQueue
  /\ pushQueue' = Append(pushQueue, [body |-> body, receiveCount |-> 0])
  /\ resp' = NoResponse
  /\ UNCHANGED <<nowMs, circles, memberships, invitations, messages, uuids, accepts,
                 acked, acceptedOk, authorSeen>>
  /\ UNCHANGED <<pushVars, jar>>

SendPushEvent == \E body \in PushBodies : SendMessageCommand(body)

\* A send loop that lets a delivery error through: it ends at the first failed
\* delivery.
RECURSIVE SendLoopStopping(_, _)
SendLoopStopping(targetUserIds, failing) ==
  IF targetUserIds = <<>> THEN [threw |-> FALSE, attempts |-> <<>>]
  ELSE LET userId == Head(targetUserIds)
           ids == SelectSeq(<<"s1", "s2">>,
                            LAMBDA id : [userId |-> userId, subscriptionId |-> id]
                                          \in subscriptions)
           Row(i) == [userId |-> userId, subscriptionId |-> ids[i]]
           firstFailed == IF \E i \in 1..Len(ids) : Row(i) \in failing
                          THEN CHOOSE i \in 1..Len(ids) :
                                 /\ Row(i) \in failing
                                 /\ \A j \in 1..(i - 1) : Row(j) \notin failing
                          ELSE 0
           upTo == IF firstFailed = 0 THEN Len(ids) ELSE firstFailed
           ofUser == [i \in 1..upTo |->
                        [userId |-> userId, subscriptionId |-> ids[i],
                         delivered |-> Row(i) \notin failing]]
           rest == SendLoopStopping(Tail(targetUserIds), failing)
       IN IF firstFailed # 0 THEN [threw |-> TRUE, attempts |-> ofUser]
          ELSE [threw |-> rest.threw, attempts |-> ofUser \o rest.attempts]

\* The loops of the send functions over the target users, in order, and over
\* each user's subscription rows, in the order of their sort key: one delivery
\* per subscription, a failed delivery (a row in failing) caught and logged.
RECURSIVE SendLoop(_, _)
SendLoop(targetUserIds, failing) ==
  IF targetUserIds = <<>> THEN [threw |-> FALSE, attempts |-> <<>>]
  ELSE LET userId == Head(targetUserIds)
           ids == SelectSeq(<<"s1", "s2">>,
                            LAMBDA id : [userId |-> userId, subscriptionId |-> id]
                                          \in subscriptions)
           ofUser == [i \in 1..Len(ids) |->
                        [userId |-> userId, subscriptionId |-> ids[i],
                         delivered |-> [userId |-> userId, subscriptionId |-> ids[i]]
                                         \notin failing]]
           rest == SendLoop(Tail(targetUserIds), failing)
       IN [threw |-> rest.threw, attempts |-> ofUser \o rest.attempts]

\* The send functions past the target lookup, on any list of target users and
\* any outcome of the deliveries.
SendRun ==
  \E targetUserIds \in {<<>>, <<"u1">>, <<"u2">>, <<"u1", "u2">>, <<"u2", "u1">>} :
    \E failing \in SUBSET subscriptions :
      /\ pushed' = <<[targets |-> targetUserIds, failing |-> failing,
                      run |-> SendLoop(targetUserIds, failing)]>>
      /\ resp' = NoResponse
      /\ UNCHANGED <<nowMs, circles, memberships, invitations, messages, pushQueue,
                     uuids, accepts, acked, acceptedOk, authorSeen, subscriptions,
                     deadLetters, vapidConfigured, jar>>

\* ------------------------------------------------------------ auth handler
\* The cookies of the /auth path in one browser.
EmptyJar == [oauth_state |-> Undefined, pkce_verifier |-> Undefined,
             refresh_token |-> Undefined, logins |-> 0]

\* randomString(): the values successive logins draw.
MaxLogins == 2
StatePool == <<"st1", "st2", "st3">>
VerifierPool == <<"v1", "v2", "v3">>

\* The response of the auth handler: exchanged tells whether the token endpoint
\* was called, setCookies names the cookies set with a value, cleared the
\* cookies set with Max-Age=0; code and state are the request's parameters.
AuthResponse(route, status, message, exchanged, setCookies, cleared, code, state) ==
  [route |-> route, status |-> status, message |-> message, exchanged |-> exchanged,
   setCookies |-> setCookies, cleared |-> cleared, code |-> code, state |-> state]

AuthStep(r, newJar) ==
  /\ resp' = r
  /\ jar' = newJar
  /\ UNCHANGED <<nowMs, circles, memberships, invitations, messages, pushQueue,
                 uuids, accepts, acked, acceptedOk, authorSeen, pushVars>>

\* GET /auth/login: fresh state and verifier in cookies, redirect to the
\* identity provider.
AuthLogin ==
  /\ jar.logins < MaxLogins
  /\ AuthStep(AuthResponse("authLogin", 302, "", FALSE, {"oauth_state", "pkce_verifier"},
                           {}, Undefined, StatePool[jar.logins + 1]),
              [jar EXCEPT !.oauth_state = StatePool[jar.logins + 1],
                          !.pkce_verifier = VerifierPool[jar.logins + 1],
                          !.logins = @ + 1])

\* The checks of the callback without the comparison of state and cookie.
CallbackChecksWithoutState(code, state, cookieMap) ==
  IF Falsy(code) \/ Falsy(state) THEN "Missing code or state"
  ELSE IF Falsy(cookieMap.pkce_verifier) THEN "Missing PKCE verifier"
  ELSE "proceed"

\* The checks of GET /auth/callback before the token exchange: the message of
\* the 400 reply, or "proceed".
CallbackChecks(code, state, cookieMap) ==
  IF Falsy(code) \/ Falsy(state) THEN "Missing code or state"
  ELSE IF Falsy(cookieMap.oauth_state) \/ cookieMap.oauth_state # state
  THEN "Invalid OAuth state"
  ELSE IF Falsy(cookieMap.pkce_verifier) THEN "Missing PKCE verifier"
  ELSE "proceed"

\* A callback that sets the refresh cookie and leaves the temporary ones.
CallbackCookiesKept(cookieMap, refresh_token) ==
  [cookieMap EXCEPT !.refresh_token = refresh_token]

\* The browser's cookies after the Set-Cookie headers of a successful callback:
\* refresh_token set, oauth_state and pkce_verifier cleared with Max-Age=0.
CallbackCookiesOut(cookieMap, refresh_token) ==
  [cookieMap EXCEPT !.refresh_token = refresh_token, !.oauth_state = Undefined,
                    !.pkce_verifier = Undefined]

\* GET /auth/callback. tokenOutcome is what the token endpoint does: it returns
\* tokens, returns 200 without a refresh token, answers with an error status, or
\* the connection fails and the invocation ends in an error.
AuthCallback(code, state, tokenOutcome) ==
  LET checks == CallbackChecks(code, state, jar)
      R(status, message, exchanged, setCookies, cleared) ==
        AuthResponse("authCallback", status, message, exchanged, setCookies, cleared,
                     code, state)
  IN IF checks # "proceed" THEN AuthStep(R(400, checks, FALSE, {}, {}), jar)
     ELSE IF tokenOutcome = "networkError"
     THEN AuthStep(R(502, "Internal server error", TRUE, {}, {}), jar)
     ELSE IF tokenOutcome = "rejected"
     THEN AuthStep(R(400, "Token exchange failed", TRUE, {}, {}), jar)
     ELSE IF tokenOutcome = "noRefreshToken"
     THEN AuthStep(R(400, "No refresh token returned", TRUE, {}, {}), jar)
     ELSE AuthStep(R(302, "", TRUE, {"refresh_token"}, {"oauth_state", "pkce_verifier"}),
                   CallbackCookiesOut(jar, "rt"))

\* POST /auth/token: the refresh cookie is exchanged for an access token.
AuthToken(tokenOutcome) ==
  IF Falsy(jar.refresh_token)
  THEN AuthStep(AuthResponse("authToken", 401, "Missing refresh token cookie", FALSE,
                             {}, {}, Undefined, Undefined), jar)
  ELSE IF tokenOutcome = "networkError"
  THEN AuthStep(AuthResponse("authToken", 502, "Internal server error", TRUE,
                             {}, {}, Undefined, Undefined), jar)
  ELSE IF tokenOutcome = "rejected"
  THEN AuthStep(AuthResponse("authToken", 401, "Refresh failed; please sign in again",
                             TRUE, {}, {}, Undefined, Undefined), jar)
  ELSE AuthStep(AuthResponse("authToken", 200, "", TRUE, {}, {}, Undefined, Undefined),
                jar)

\* POST /auth/logout: the refresh cookie is cleared.
AuthLogout ==
  AuthStep(AuthResponse("authLogout", 204, "", FALSE, {}, {"refresh_token"},
                        Undefined, Undefined),
           [jar EXCEPT !.refresh_token = Undefined])

\* The browser drops a cookie: its Max-Age has passed, or the user removed it.
DropCookie ==
  \E name \in {"oauth_state", "pkce_verifier", "refresh_token"} :
    /\ Truthy(jar[name])
    /\ AuthStep(NoResponse, [jar EXCEPT ![name] = Undefined])

\* ------------------------------------------------------------ specification
Init ==
  /\ nowMs = StartMs
  /\ circles = {}
  /\ memberships = {}
  /\ invitations = {}
  /\ messages = {}
  /\ pushQueue = <<>>
  /\ uuids = [circle |-> 0, invitation |-> 0, message |-> 0]
  /\ accepts = [slot \in AcceptSlots |-> IdleAccept]
  /\ resp = NoResponse
  /\ acked = {}
  /\ acceptedOk = {}
  /\ authorSeen = [c \in ClaimsInputs |-> {}]
  /\ subscriptions = {}
  /\ deadLetters = {}
  /\ vapidConfigured = TRUE
  /\ pushed = NoPushed
  /\ jar = EmptyJar

\* ---------------------------------------------------------------- requests
Authenticated == {c \in ClaimsInputs : Truthy(getUserFromEvent(c).userId)}
Unauthenticated == ClaimsInputs \ Authenticated

\* The requests of the route checks: every caller, bodies that are absent,
\* unparsable or parsed, circles the caller may or may not belong to.
RouteCircleRequests ==
  [claims : ClaimsInputs, name : NameInputs, storeFails : {"none"}]
RouteMessageRequests ==
  [claims : ClaimsInputs, bodyKind : {"none", "invalid"}, payload : {EmptyPayload},
   storeFails : {FALSE}]
  \cup [claims : Unauthenticated, bodyKind : {"json"}, payload : {EmptyPayload},
        storeFails : {FALSE}]
  \cup [claims : Authenticated, bodyKind : {"json"},
        payload : {p \in MessagePayloads :
                     /\ p.familyId # " c1 " /\ p.text # BigText
                     /\ p.messageType = Undefined /\ p.questionId = Undefined
                     /\ p.messageId = Undefined /\ p.author = Undefined},
        storeFails : {FALSE}]
RouteQueryRequests ==
  [claims : ClaimsInputs, familyId : QueryCircleInputs, storeFails : {FALSE}]
RouteListRequests ==
  [claims : ClaimsInputs, familyId : QueryCircleInputs, limit : {Undefined},
   storeFails : {FALSE}, withCrossing : {FALSE}]
RoutePlainRequests == [claims : ClaimsInputs, storeFails : {FALSE}]
RoutePromptRequests ==
  [claims : ClaimsInputs, bodyKind : {"none", "invalid"}, circleId : {Undefined},
   count : {[kind |-> "undefined", n |-> 0]},
   completion : {[kind |-> "array", entries |-> <<"p1">>]}]
  \cup [claims : ClaimsInputs, bodyKind : {"json"}, circleId : QueryCircleInputs,
        count : {[kind |-> "undefined", n |-> 0]},
        completion : {[kind |-> "invokeError", entries |-> <<>>],
                      [kind |-> "array", entries |-> <<"p1">>]}]
RouteInvitationRequests ==
  [claims : ClaimsInputs, circleId : CircleIds \cup {"zz"}, bodyKind : {"none", "invalid"},
   payload : {EmptyInvitationPayload}, storeFails : {FALSE}, emailOutcome : {"skipped"}]
  \cup [claims : ClaimsInputs, circleId : CircleIds \cup {"zz"}, bodyKind : {"json"},
        payload : {p \in InvitationPayloads :
                     p.role = Undefined /\ p.expiresInDays.kind = "undefined"},
        storeFails : {FALSE}, emailOutcome : {"sent", "failed", "skipped"}]
RouteAcceptRequests ==
  [claims : ClaimsInputs, bodyKind : {"none", "invalid"}, invitationId : {Undefined},
   storeFails : {FALSE}]
  \cup [claims : ClaimsInputs, bodyKind : {"json"}, invitationId : InvitationIdInputs,
        storeFails : {FALSE}]

\* Every route of the API handler, one invocation at a time.
Next ==
  \/ CreateCircleOver(RouteCircleRequests)
  \/ CreateMessageOver(RouteMessageRequests, RoutesMaxMessages)
  \/ ListMessagesOver(RouteListRequests)
  \/ ListCircleMembersOver(RouteQueryRequests)
  \/ ListMyCirclesOver(RoutePlainRequests)
  \/ ListTagsOver(RoutePlainRequests)
  \/ GeneratePromptsOver(RoutePromptRequests)
  \/ CreateInvitationOver(RouteInvitationRequests)
  \/ AcceptInvitationOn({1}, RouteAcceptRequests, {FALSE})

Spec == Init /\ [][Next]_vars

\* The invitation lifecycle: concurrent accept invocations of authenticated
\* callers, store calls that may fail, the clock in days and the store's
\* time-to-live deletion.
InviteCircleRequests ==
  [claims : Authenticated, name : {"devteam"}, storeFails : {"none"}]
InviteInvitationRequests ==
  [claims : Authenticated, circleId : CircleIds, bodyKind : {"json"},
   payload : {p \in InvitationPayloads : p.email = "b@x"},
   storeFails : {FALSE}, emailOutcome : {"sent"}]
InviteAcceptRequests ==
  [claims : Authenticated, bodyKind : {"json"}, invitationId : InvitationIds \cup {"nope"},
   storeFails : BOOLEAN]

NextInvite ==
  \/ TickDay
  \/ CreateCircleOver(InviteCircleRequests)
  \/ CreateInvitationOver(InviteInvitationRequests)
  \/ AcceptInvitationOn(AcceptSlots, InviteAcceptRequests, BOOLEAN)
  \/ TtlSweep

SpecInvite == Init /\ [][NextInvite]_vars

\* The message log: members' creates in the same and in later milliseconds.
MessagesCircleRequests ==
  [claims : Authenticated, name : {"devteam"}, storeFails : {"none"}]
MessagesMessageRequests ==
  [claims : Authenticated, bodyKind : {"json"},
   payload : {p \in MessagePayloads :
                /\ p.familyId \in CircleIds /\ p.text = "hi" /\ p.questionId = Undefined
                /\ p.messageType \in {Undefined, "question", " Question "}},
   storeFails : BOOLEAN]

NextMessages ==
  \/ TickMs
  \/ CreateCircleOver(MessagesCircleRequests)
  \/ CreateMessageOver(MessagesMessageRequests, MaxMessages)

SpecMessages == Init /\ [][NextMessages]_vars


\* Listing a circle's log: one member posts questions and answers, some of them
\* as long as an item can be, and members list with and without a limit.
ReturnedQuestionIds == {i.messageId : i \in {m \in acked : m.messageType = "question"}}
ListCircleRequests == [claims : {MkClaims("u1", Undefined, "Alice", "a@x")},
                       name : {"devteam"}, storeFails : {"none"}]
ListCreateRequests ==
  [claims : {MkClaims("u1", Undefined, "Alice", "a@x")}, bodyKind : {"json"},
   payload : [familyId : CircleIds, text : {"hi"}, messageType : {"question", Undefined},
              questionId : {Undefined} \cup ReturnedQuestionIds, messageId : {Undefined},
              author : {Undefined}]
             \cup [familyId : CircleIds, text : {BigText}, messageType : {Undefined},
                   questionId : {Undefined}, messageId : {Undefined}, author : {Undefined}],
   storeFails : {FALSE}]
ListListRequests ==
  [claims : {MkClaims("u1", Undefined, "Alice", "a@x")}, familyId : CircleIds,
   limit : LimitInputs, storeFails : {FALSE}, withCrossing : BOOLEAN]

NextList ==
  \/ TickMsUpTo(MaxListTicks)
  \/ CreateCircleOver(ListCircleRequests)
  \/ CreateMessageOver(ListCreateRequests, MaxListMessages)
  \/ ListMessagesOver(ListListRequests)

SpecList == Init /\ [][NextList]_vars

\* Prompt generation: callers with and without an identity and a circle, every
\* count a payload can carry, and every shape of completion.
PromptRequests ==
  [claims : {MkClaims("u1", Undefined, "Alice", "a@x"), NoClaims},
   bodyKind : {"json"}, circleId : {Undefined} \cup CircleIds,
   count : PromptCountInputs, completion : CompletionInputs]
  \cup [claims : {MkClaims("u2", Undefined, Undefined, "b@x")},
        bodyKind : {"none", "invalid", "json"}, circleId : CircleIds,
        count : {[kind |-> "number", n |-> 1]},
        completion : {[kind |-> "array", entries |-> <<"p1", "p2">>]}]

NextPrompts ==
  \/ CreateCircleOver(ListCircleRequests)
  \/ GeneratePromptsOver(PromptRequests)

SpecPrompts == Init /\ [][NextPrompts]_vars

\* The fan-out worker on its own: the tables as the routes can have left them,
\* the subscriptions devices have registered, and any producer on the queue.
PushMembershipTables ==
  LET Row(u, role) == [userId |-> u, circleId |-> CircleIdPool[1], role |-> role,
                       joinedAt |-> toISOString(StartMs), displayName |-> u]
  IN {{}, {Row("u1", "owner")},
      {Row("u1", "owner")} \cup {Row(u, "member") : u \in UserIds \ {"u1"}}}

SubscriptionIds == {"s1", "s2"}
SubscriptionRows == [userId : UserIds, subscriptionId : SubscriptionIds]

InitPush ==
  /\ nowMs = StartMs
  /\ circles = {}
  /\ memberships \in PushMembershipTables
  /\ invitations = {}
  /\ messages = {}
  /\ pushQueue = <<>>
  /\ uuids = [circle |-> 0, invitation |-> 0, message |-> 0]
  /\ accepts = [slot \in AcceptSlots |-> IdleAccept]
  /\ resp = NoResponse
  /\ acked = {}
  /\ acceptedOk = {}
  /\ authorSeen = [c \in ClaimsInputs |-> {}]
  /\ subscriptions \in {t \in SUBSET SubscriptionRows : Cardinality(t) <= MaxSubscriptions}
  /\ deadLetters = {}
  /\ vapidConfigured \in BOOLEAN
  /\ pushed = NoPushed
  /\ jar = EmptyJar

NextPush ==
  \/ SendPushEvent
  \/ PushSenderInvoke
  \/ MoveToDeadLetters

SpecPush == InitPush /\ [][NextPush]_vars

\* The auth handler and one browser: logins, callbacks with any parameters and
\* any answer of the token endpoint, token refreshes, logouts, dropped cookies.
NextAuth ==
  \/ AuthLogin
  \/ \E code \in {Undefined, "code1"} : \E state \in {Undefined, "zz"} \cup {StatePool[i] : i \in 1..MaxLogins} :
       \E tokenOutcome \in {"tokens", "noRefreshToken", "rejected", "networkError"} :
         AuthCallback(code, state, tokenOutcome)
  \/ \E tokenOutcome \in {"tokens", "rejected", "networkError"} : AuthToken(tokenOutcome)
  \/ AuthLogout
  \/ DropCookie

SpecAuth == Init /\ [][NextAuth]_vars

\* The send loop on its own: any subscription table, any targets.
InitSend ==
  /\ nowMs = StartMs
  /\ circles = {}
  /\ memberships = {}
  /\ invitations = {}
  /\ messages = {}
  /\ pushQueue = <<>>
  /\ uuids = [circle |-> 0, invitation |-> 0, message |-> 0]
  /\ accepts = [slot \in AcceptSlots |-> IdleAccept]
  /\ resp = NoResponse
  /\ acked = {}
  /\ acceptedOk = {}
  /\ authorSeen = [c \in ClaimsInputs |-> {}]
  /\ subscriptions \in SUBSET SubscriptionRows
  /\ deadLetters = {}
  /\ vapidConfigured = TRUE
  /\ pushed = NoPushed
  /\ jar = EmptyJar

SpecSend == InitSend /\ [][SendRun]_vars

\* The queue keeps handing its oldest record to the worker, and keeps moving the
\* records that reached the receive limit to the dead-letter queue.
ReceiveOldest ==
  \E batch \in SUBSET (1..Len(pushQueue)) : \E fails \in PushLookupFailures :
    1 \in batch /\ PushSenderHandler(batch, fails)

SpecPushFair ==
  InitPush /\ [][NextPush]_vars /\ WF_vars(ReceiveOldest) /\ WF_vars(MoveToDeadLetters)


\* ------------------------------------------------------------------ claims
\* The routes that act on one circle.
CircleScopedRoutes == {"listMessages", "createMessage", "listMembers", "listTags",
                       "generatePrompts", "createInvitation"}

\* A request of an identified caller that names a circle the caller is not a
\* member of has just completed.
NonMemberRequest ==
  /\ resp.route \in CircleScopedRoutes
  /\ Truthy(resp.userId)
  /\ Truthy(resp.circleId)
  /\ ~resp.member

\* C1: every circle-scoped request of a caller who is not a member of the
\* circle it names is answered 403.
C1_NonMemberForbidden == NonMemberRequest => resp.status = 403

\* The routes that need an identity.
IdentityRoutes == {"listMessages", "createMessage", "listMyCircles", "listMembers",
                   "listTags", "createInvitation", "acceptInvitation", "generatePrompts"}

\* C7: a request without a resolvable caller identity is answered 401 on every
\* route that needs an identity.
C7_NoIdentityUnauthorized ==
  (resp.route \in IdentityRoutes /\ Falsy(resp.userId)) => resp.status = 401

\* An accept request that arrived after an accept of the same invitation had
\* returned 200 has just completed.
LateAccept == resp.route = "acceptInvitation" /\ resp.late

\* C2: once an invitation (maxUses = 1) has been accepted, every later accept
\* of it fails with "Invitation has already been used".
C2_LaterAcceptAlreadyUsed ==
  LateAccept => (resp.status = 400 /\ resp.message = "Invitation has already been used")

\* The ways a later accept ends.
LateAcceptOutcomes ==
  {<<400, "Invitation is no longer pending">>, <<410, "Invitation has expired">>,
   <<404, "Invitation not found">>, <<500, "Internal server error">>}

\* C2 as the code has it: every later accept fails as no longer pending, expired,
\* not found or with a store error, and the step that answers it leaves the
\* memberships as they were.
C2_LaterAcceptFails ==
  /\ [](LateAccept => <<resp.status, resp.message>> \in LateAcceptOutcomes)
  /\ [][LateAccept' => UNCHANGED memberships]_vars

C2_LaterAcceptSeen ==
  /\ LateAccept
  /\ resp.status = 400
  /\ \E r \in invitations : r.invitationId = resp.invitationId /\ r.usesCount >= r.maxUses

\* C3: an accept that reads an invitation with expiresAt <= now is answered 410
\* (a failing store call aside), whatever expiresAt create invitation stored.
C3_ExpiredAcceptGone ==
  (resp.route = "acceptInvitation" /\ resp.expired /\ resp.status # 500)
    => resp.status = 410

\* C4: once an invitation is ACCEPTED no step changes its status, usesCount,
\* acceptedByUserId or acceptedAt.
C4_AcceptedFrozen ==
  [][\A r \in invitations : \A r2 \in invitations' :
       (r.invitationId = r2.invitationId /\ r.status = "ACCEPTED")
         => /\ r2.status = r.status
            /\ r2.usesCount = r.usesCount
            /\ r2.acceptedByUserId = r.acceptedByUserId
            /\ r2.acceptedAt = r.acceptedAt]_vars

\* C5: when an accept returns 200 the caller holds a membership of the
\* invitation's circle with the invitation's role, and the invitation is
\* ACCEPTED with usesCount = 1 and acceptedByUserId = the caller.
C5_AcceptPostcondition ==
  (resp.route = "acceptInvitation" /\ resp.status = 200)
    => \E r \in invitations :
         /\ r.invitationId = resp.invitationId
         /\ r.status = "ACCEPTED"
         /\ r.usesCount = 1
         /\ r.acceptedByUserId = resp.userId
         /\ \E m \in memberships :
              /\ m.userId = resp.userId
              /\ m.circleId = r.circleId
              /\ m.role = r.role

\* C6: the author stored on a message depends on the caller's claims only:
\* two creates with the same claims store the same author, whatever author
\* field their bodies carry.
C6_AuthorFromClaims ==
  \A c \in ClaimsInputs : \A p1, p2 \in authorSeen[c] : p1[2] = p2[2]

C6_BodyAuthorsDiffer ==
  \E c \in ClaimsInputs : \E p1, p2 \in authorSeen[c] :
    p1[1] = Undefined /\ p2[1] # Undefined

\* The event type a created message calls for.
PushEventTypeOf(item) ==
  IF item.messageType = "question" THEN "NEW_QUESTION" ELSE "NEW_ANSWER"

\* C9: when create message returns 201 the queue holds a push event of the
\* type of the message, with the message's circle and the caller as the actor.
C9_CreateEnqueuesEvent ==
  (resp.route = "createMessage" /\ resp.status = 201)
    => \E i \in 1..Len(pushQueue) :
         /\ pushQueue[i].body.type = PushEventTypeOf(resp.item)
         /\ pushQueue[i].body.circleId = resp.item.familyId
         /\ pushQueue[i].body.actorUserId = resp.userId

\* C10: every message item a create returned with 201 stays in the log as it
\* was returned.
C10_AppendOnly == acked \subseteq messages

\* C8: the worker attempts no push to a subscription of the actor of the event
\* it handles, and whichever member rows the lookup returns, the actor is not
\* among the targets.
C8_ActorNotNotified ==
  /\ \A k \in 1..Len(pushed) : \A a \in pushed[k].attempts :
       a.userId # pushed[k].body.actorUserId
  /\ \A rows \in SUBSET memberships : \A actorUserId \in UserIds :
       actorUserId \notin TargetsAmong(rows, actorUserId)

\* The worker handled a NEW_QUESTION or NEW_ANSWER event whose actor is a member
\* of the event's circle and has a subscription, with the keys configured.
C8_ActorEventHandled ==
  \E k \in 1..Len(pushed) :
    /\ pushed[k].body.type \in {"NEW_QUESTION", "NEW_ANSWER"}
    /\ vapidConfigured
    /\ \E m \in memberships : /\ m.userId = pushed[k].body.actorUserId
                              /\ m.circleId = pushed[k].body.circleId
    /\ \E sub \in subscriptions : sub.userId = pushed[k].body.actorUserId

\* The position of item in a list response, 0 when it is not there.
PositionIn(items, item) ==
  IF \E k \in 1..Len(items) : items[k] = item
  THEN CHOOSE k \in 1..Len(items) : items[k] = item
  ELSE 0

\* C11: after a question and then an answer whose questionId is the messageId
\* returned for the question, a list of the circle returns both, the answer
\* before the question, the answer's questionId being the question's messageId.
C11_RoundTrip ==
  (resp.route = "listMessages" /\ resp.status = 200 /\ resp.limit = DefaultLimit)
    => \A q, a \in acked :
         (/\ q.familyId = resp.circleId /\ a.familyId = resp.circleId
          /\ q.messageType = "question" /\ a.messageType = "answer"
          /\ a.questionId = q.messageId)
           => /\ PositionIn(resp.items, a) > 0
              /\ PositionIn(resp.items, q) > PositionIn(resp.items, a)

\* The messages a circle holds.
MessagesOf(familyId) == {m \in messages : m.familyId = familyId}

Min(a, b) == IF a < b THEN a ELSE b

\* C16: a list of a circle holding N messages returns the min(limit, N) messages
\* with the greatest createdAt, by createdAt descending; limit is 20 when the
\* request gives none.
C16_NewestLimit ==
  (resp.route = "listMessages" /\ resp.status = 200)
    => resp.items = SubSeq(NewestFirst(MessagesOf(resp.circleId)), 1,
                           Min(resp.limit, Cardinality(MessagesOf(resp.circleId))))

\* C12: a create without a messageId stores a messageId that no message
\* already stored in that circle has.
C12_GeneratedIdFresh ==
  [][(resp'.route = "createMessage" /\ resp'.status = 201 /\ resp'.generated)
       => \A m \in messages :
            m.familyId = resp'.item.familyId => m.messageId # resp'.item.messageId]_vars

C12_GeneratedAmongOthers ==
  /\ resp.route = "createMessage" /\ resp.status = 201 /\ resp.generated
  /\ \E m \in messages : m.familyId = resp.item.familyId /\ m # resp.item

\* C13: every stored message has a messageId and no two messages of a circle
\* share one.
C13_MessageIdsUnique ==
  /\ \A m \in messages : Truthy(m.messageId)
  /\ \A m1, m2 \in messages :
       (m1.familyId = m2.familyId /\ m1 # m2) => m1.messageId # m2.messageId

\* C14: every stored answer has a questionId, and only questions omit it.
C14_AnswersHaveQuestionId ==
  \A m \in messages :
    /\ m.messageType = "answer" => Truthy(m.questionId)
    /\ Falsy(m.questionId) => m.messageType = "question"

\* Create circle has just answered 201.
CircleCreated == resp.route = "createCircle" /\ resp.status = 201

RequestedCount(count) ==
  IF count.kind = "number"
  THEN IF count.n < 1 THEN 1 ELSE IF count.n > 8 THEN 8 ELSE count.n
  ELSE 4

\* C17: every successful prompt generation returns at least one and at most
\* count prompts, each a non-empty string, where count is the requested count
\* clamped to 1..8 and 4 when none is requested.
C17_PromptsWithinCount ==
  (resp.route = "generatePrompts" /\ resp.status = 200)
    => /\ Len(resp.prompts) >= 1
       /\ Len(resp.prompts) <= RequestedCount(resp.count)
       /\ \A i \in 1..Len(resp.prompts) : resp.prompts[i] \notin {"", " ", NotAString}

\* The users an accept of the invitation answered with 200.
AcceptedUsers(invitationId) ==
  {ok.userId : ok \in {o \in acceptedOk : o.invitationId = invitationId}}

\* C18: under every interleaving of concurrent accepts of one invitation its
\* usesCount never exceeds its maxUses, and at most maxUses distinct users obtain
\* a membership row through it.
C18_UsesWithinMaxUses ==
  \A r \in invitations :
    Truthy(r.circleId)
      => /\ r.usesCount <= r.maxUses
         /\ Cardinality(AcceptedUsers(r.invitationId)) <= r.maxUses

\* The invitations of the table were created by members of their circles.
InvitationsByMembers ==
  \A r \in invitations :
    Truthy(r.circleId)
      => \E m \in memberships : m.userId = r.createdByUserId /\ m.circleId = r.circleId

\* An accept of the user for the circle is between its membership put and its
\* reply.
AcceptInFlight(userId, circleId) ==
  \E slot \in AcceptSlots :
    /\ accepts[slot].pc = "update"
    /\ accepts[slot].userId = userId
    /\ accepts[slot].circleId = circleId

\* C19: a user is a member of a circle only if they created it or successfully
\* accepted an invitation for it, itself created by a member of the circle; no
\* other operation adds a membership row.
C19_MembershipProvenance ==
  /\ InvitationsByMembers
  /\ \A m \in memberships :
       \/ \E c \in circles : c.circleId = m.circleId /\ c.createdByUserId = m.userId
       \/ \E ok \in acceptedOk : ok.userId = m.userId /\ ok.circleId = m.circleId
       \/ AcceptInFlight(m.userId, m.circleId)

\* C20: once a membership row exists no step changes its role or joinedAt; in
\* particular a member who accepts an invitation to a circle they already
\* belong to keeps their row as it was.
C20_MembershipFrozen ==
  [][\A m \in memberships : \A m2 \in memberships' :
       (m2.userId = m.userId /\ m2.circleId = m.circleId)
         => /\ m2.role = m.role
            /\ m2.joinedAt = m.joinedAt]_vars

\* C21: the role of every membership row is owner or member, whatever role the
\* create-invitation requests supply.
C21_RolesOwnerOrMember ==
  \A m \in memberships : m.role \in {"owner", "member"}

\* The subscriptions of the users who hold a membership row of the circle and
\* are not the actor.
MemberSubscriptions(circleId, actorUserId) ==
  {sub \in subscriptions :
     /\ sub.userId # actorUserId
     /\ \E m \in memberships : m.userId = sub.userId /\ m.circleId = circleId}

\* C22: for every processed NEW_QUESTION or NEW_ANSWER event (keys configured,
\* no lookup failing in transit) a push is attempted for each subscription of
\* each member of the event's circle other than the actor, and for no
\* subscription of a user who is not a member.
C22_MembersNotified ==
  \A k \in 1..Len(pushed) :
    ( /\ pushed[k].body.type \in {"NEW_QUESTION", "NEW_ANSWER"}
      /\ vapidConfigured
      /\ ~pushed[k].lookups.members
      /\ ~pushed[k].lookups.subscriptions )
      => {[userId |-> a.userId, subscriptionId |-> a.subscriptionId] :
            a \in pushed[k].attempts}
         = MemberSubscriptions(pushed[k].body.circleId, pushed[k].body.actorUserId)

\* Every queued record whose body satisfies Stuck stays in the queue, its
\* receive count not lowered, or leaves it for the dead-letter queue at the
\* receive limit.
RetriedOrDeadLettered(Stuck(_)) ==
  \A i \in 1..Len(pushQueue) :
    Stuck(pushQueue[i].body)
      => \/ \E j \in 1..Len(pushQueue') :
              /\ pushQueue'[j].body = pushQueue[i].body
              /\ pushQueue'[j].receiveCount >= pushQueue[i].receiveCount
         \/ /\ pushQueue[i].receiveCount >= MaxReceiveCount
            /\ pushQueue[i].body \in deadLetters'

Unparsable(body) == ~body.parses
Unroutable(body) == body.parses /\ body.type \notin {"NEW_QUESTION", "NEW_ANSWER"}
UnparsableOrUnroutable(body) == Unparsable(body) \/ Unroutable(body)

LookupFailedAt(k) ==
  /\ pushed[k].body.type \in {"NEW_QUESTION", "NEW_ANSWER"}
  /\ vapidConfigured
  /\ (pushed[k].lookups.members \/ pushed[k].lookups.subscriptions)

\* C25: when the membership lookup or a subscription lookup fails while the
\* worker processes an event, the failure is treated as an empty result: the
\* record completes without raising and with no push attempted, and the batch
\* is acknowledged, not retried.
C25_LookupFailureAcknowledged ==
  /\ [](\A k \in 1..Len(pushed) :
          LookupFailedAt(k) => ~pushed[k].threw /\ pushed[k].attempts = {})
  /\ [][\A batch \in SUBSET (1..Len(pushQueue)) : \A fails \in PushLookupFailures :
          ( /\ fails.members \/ fails.subscriptions
            /\ \A i \in batch : pushQueue[i].body.parses
            /\ PushSenderHandler(batch, fails) )
            => pushQueue' = AfterBatch(pushQueue, batch, FALSE)]_vars

\* The worker handled an event of u2 while a lookup failed, member u1 holding a
\* subscription, and the record has left the queue without reaching the
\* dead-letter queue.
C25_LookupFailureSeen ==
  /\ Len(pushed) = 1
  /\ LookupFailedAt(1)
  /\ ~pushed[1].threw
  /\ \E sub \in MemberSubscriptions(pushed[1].body.circleId, pushed[1].body.actorUserId) :
       TRUE
  /\ pushQueue = <<>>
  /\ deadLetters = {}

\* The subscription rows of the users in a list of targets.
SubscriptionsOfTargets(targetUserIds) ==
  {sub \in subscriptions : \E i \in 1..Len(targetUserIds) : targetUserIds[i] = sub.userId}

\* C24: a failed delivery to one subscription does not stop the worker: every
\* subscription of every target user gets its delivery attempt, once, whichever
\* deliveries fail, and the run does not raise.
C24_FailedDeliveryContinues ==
  \A k \in 1..Len(pushed) :
    LET attempts == pushed[k].run.attempts
        Attempted == {[userId |-> attempts[i].userId,
                       subscriptionId |-> attempts[i].subscriptionId] :
                        i \in 1..Len(attempts)}
    IN /\ ~pushed[k].run.threw
       /\ Attempted = SubscriptionsOfTargets(pushed[k].targets)
       /\ Len(attempts) = Cardinality(Attempted)
       /\ \A i \in 1..Len(attempts) :
            attempts[i].delivered
              <=> [userId |-> attempts[i].userId,
                   subscriptionId |-> attempts[i].subscriptionId] \notin pushed[k].failing

\* The first delivery failed, and the user's other subscription and the two
\* subscriptions of the next target user were still attempted.
C24_FailedThenAttempted ==
  /\ Len(pushed) = 1
  /\ Len(pushed[1].run.attempts) = 4
  /\ ~pushed[1].run.attempts[1].delivered
  /\ pushed[1].run.attempts[2].userId = pushed[1].run.attempts[1].userId
  /\ pushed[1].run.attempts[3].userId # pushed[1].run.attempts[1].userId

\* C26: every circle of the circle store has a membership row
\* (createdByUserId, circleId) whose role is owner.
C26_CircleHasOwner ==
  \A c \in circles :
    \E m \in memberships :
      /\ m.userId = c.createdByUserId
      /\ m.circleId = c.circleId
      /\ m.role = "owner"

\* C27: whenever the invitation write of create invitation succeeds the request
\* returns 201 and the invitation is stored with status PENDING and usesCount 0,
\* whether the e-mail send succeeds, fails or is skipped.
C27_EmailNeverFailsCreate ==
  /\ []((resp.route = "createInvitation" /\ resp.status = 201)
          => \E r \in invitations :
               /\ r.invitationId = resp.invitationId
               /\ r.status = "PENDING"
               /\ r.usesCount = 0)
  /\ [][(\E r \in invitations' :
           /\ Truthy(r.circleId)
           /\ \A r0 \in invitations : r0.invitationId # r.invitationId)
          => (resp'.route = "createInvitation" /\ resp'.status = 201)]_vars

\* An invitation was created with 201 although its e-mail send failed.
C27_CreatedDespiteEmailError ==
  /\ resp.route = "createInvitation"
  /\ resp.status = 201
  /\ resp.email = "skipped: SES error"
  /\ \E r \in invitations : r.invitationId = resp.invitationId

\* The step is a callback request answered with r.
CallbackAnswered(r) == r.route = "authCallback" /\ r # resp

\* C28: the callback calls the token endpoint only when the request's state
\* equals the oauth_state cookie and a pkce_verifier cookie is present; in every
\* other case it returns 400 and sets no refresh_token cookie.
C28_ExchangeOnlyAfterChecks ==
  [][CallbackAnswered(resp')
       => LET checked == /\ Truthy(jar.oauth_state)
                         /\ jar.oauth_state = resp'.state
                         /\ Truthy(jar.pkce_verifier)
          IN /\ resp'.exchanged => checked
             /\ ~checked => /\ resp'.status = 400
                            /\ "refresh_token" \notin resp'.setCookies
                            /\ jar'.refresh_token = jar.refresh_token]_vars

\* A callback was refused for its state although both cookies were there, and
\* the browser holds no refresh token.
C28_WrongStateRefused ==
  /\ resp.route = "authCallback"
  /\ resp.status = 400
  /\ ~resp.exchanged
  /\ Truthy(resp.code)
  /\ Truthy(jar.oauth_state)
  /\ Truthy(jar.pkce_verifier)
  /\ jar.oauth_state # resp.state
  /\ Falsy(jar.refresh_token)

\* C29: a callback succeeds only after a login issued to the same browser, and
\* it is one-shot: a successful callback sets the refresh_token cookie and
\* clears oauth_state and pkce_verifier, and the same callback request repeated
\* afterwards is answered 400 until a new login is made.
C29_CallbackOneShot ==
  /\ [][(CallbackAnswered(resp') /\ resp'.status = 302)
          => /\ jar.logins >= 1
             /\ jar.oauth_state = StatePool[jar.logins]
             /\ Truthy(jar'.refresh_token)
             /\ Falsy(jar'.oauth_state)
             /\ Falsy(jar'.pkce_verifier)]_vars
  /\ [][(/\ resp.route = "authCallback"
         /\ resp.status = 302
         /\ resp'.route = "authCallback"
         /\ resp'.code = resp.code
         /\ resp'.state = resp.state)
          => (resp' = resp \/ (resp'.status = 400 /\ ~resp'.exchanged))]_vars
  /\ [][(CallbackAnswered(resp') /\ Falsy(jar.oauth_state))
          => (resp'.status = 400 /\ ~resp'.exchanged)]_vars

\* The callback that had just succeeded was sent again and refused.
C29_ReplayRefused ==
  /\ resp.route = "authCallback"
  /\ resp.status = 400
  /\ resp.message = "Invalid OAuth state"
  /\ jar.logins >= 1
  /\ resp.state = StatePool[jar.logins]
  /\ Truthy(resp.code)
  /\ Truthy(jar.refresh_token)
  /\ Falsy(jar.oauth_state)
  /\ Falsy(jar.pkce_verifier)

\* C30: prompt generation fails with 502 only when the completion call errors
\* or when both parse strategies, the JSON array and then the newline split,
\* yield no non-empty string.
C30_FallbackBeforeFailing ==
  (resp.route = "generatePrompts" /\ resp.status = 502)
    => \/ resp.completion.kind \in {"invokeError", "unparsable", "emptyText"}
       \/ /\ ParsePrompts(resp.completion) = <<>>
          /\ NewlineSplit(resp.completion) = <<>>

====
